---- MODULE Spec2Model ----
(***************************************************************************)
(* Model of OntologyService.classify (src/src/ontology/service.py): the    *)
(* two-stage constrained classification of concept mentions and of an      *)
(* event title against a taxonomy snapshot.  One request is followed from  *)
(* entry to its response; the oracle (the two _call_openai_sync calls) is  *)
(* the environment: each call either raises or returns any reply of a      *)
(* bounded family.                                                         *)
(*                                                                         *)
(* Conventions.  Python lists are sequences, dicts are functions, sets are *)
(* sets.  An absent Optional value is None; a confidence c in [0,1] is the *)
(* integer 100*c.  Record fields the code only carries along and never     *)
(* reads (labels, descriptions, conceptType, conceptName, rationale, the   *)
(* confidence of a leaf record) are left out.                              *)
(***************************************************************************)
EXTENDS Integers, Sequences, FiniteSets, TLC

\* the process: the credentials setting and the module-level oracle client
VARIABLES enabled, _client
\* the locals of the classify coroutine that holds the event loop
VARIABLES payload, pc, calls, concept_root_map, event_roots,
          root_warnings, stage2_payload, leaf_reply, response, exit
\* cur: the request whose coroutine holds the event loop; parked: the locals
\* of the suspended coroutines; thread: the worker thread of each request's
\* oracle call; http: the status the endpoint answers with
VARIABLES cur, parked, thread, http
\* the arguments and the result of a function applied on its own
VARIABLES args, result

vars == <<enabled, _client, payload, pc, calls, concept_root_map, event_roots,
          root_warnings, stage2_payload, leaf_reply, response, exit,
          cur, parked, thread, http, args, result>>

None == "None"

\* Python truthiness of an Optional[str]: None and "" are false.
Truthy(s) == s # None /\ s # ""

Range(s) == {s[i] : i \in 1..Len(s)}

\* s[:n]
Take(s, n) == SubSeq(s, 1, IF Len(s) < n THEN Len(s) ELSE n)

EmptyMap == [x \in {} |-> <<>>]

\* d.get(k, default)
Get(d, k, default) == IF k \in DOMAIN d THEN d[k] ELSE default

\* d[k] = v on a dict
Put(d, k, v) == [x \in (DOMAIN d) \cup {k} |-> IF x = k THEN v ELSE d[x]]

(***************************************************************************)
(* Program constants.                                                      *)
(***************************************************************************)
ConfThreshold == 40
TopK == 5
LeafCap == 200
DropSample == 50

(***************************************************************************)
(* Responses (ClassifyResponse, dtos.py 130-137).                          *)
(***************************************************************************)
ClassifyResponse(ok, errors, warnings) ==
    [ok |-> ok, classifications |-> <<>>, eventActivities |-> <<>>,
     oClassesToAdd |-> <<>>, subclassEdgesToAdd |-> <<>>,
     errors |-> errors, warnings |-> warnings]

NoResponse == [ok |-> None]

(***************************************************************************)
(* Taxonomy graph.                                                         *)
(***************************************************************************)
\* _infer_event_title: the sourceText of the first concept that has one.
RECURSIVE FirstSourceText(_, _)
FirstSourceText(concepts, i) ==
    IF i > Len(concepts) THEN None
    ELSE IF Truthy(concepts[i].sourceText) THEN concepts[i].sourceText
    ELSE FirstSourceText(concepts, i + 1)

_infer_event_title(p) == FirstSourceText(p.concepts, 1)

IsFlaggedRoot(c) == c.isRoot = TRUE

\* the flagged classes and the classes without a parent together
_get_root_classes_Union(p) ==
    LET child_ids == {p.snapshot.subclassEdges[i].childId :
                         i \in 1..Len(p.snapshot.subclassEdges)}
        IsRoot(c) == IsFlaggedRoot(c) \/ c.id \notin child_ids
    IN  SelectSeq(p.snapshot.oClasses, IsRoot)

\* the classes without a parent, whatever is flagged
_get_root_classes_Structural(p) ==
    LET child_ids == {p.snapshot.subclassEdges[i].childId :
                         i \in 1..Len(p.snapshot.subclassEdges)}
        NotChild(c) == c.id \notin child_ids
    IN  SelectSeq(p.snapshot.oClasses, NotChild)

\* the fallback without its filter
_get_root_classes_NoFilter(p) ==
    LET roots == SelectSeq(p.snapshot.oClasses, IsFlaggedRoot)
    IN  IF roots # <<>> THEN roots ELSE p.snapshot.oClasses

\* _get_root_classes: the flagged classes, else the classes that are no
\* edge's child.
_get_root_classes(p) ==
    LET roots == SelectSeq(p.snapshot.oClasses, IsFlaggedRoot)
        child_ids == {p.snapshot.subclassEdges[i].childId :
                         i \in 1..Len(p.snapshot.subclassEdges)}
        NotChild(c) == c.id \notin child_ids
    IN  IF roots # <<>> THEN roots
        ELSE SelectSeq(p.snapshot.oClasses, NotChild)

\* lines 118-119
include_concept(p) == p.scope \in {"concept", "both"}

\* line 119 written with the scopes of line 118
include_event_AsConcept(p) == p.scope \in {"concept", "both"}

include_event(p) == p.scope \in {"event", "both"}

IsEntity(c) == c.facet = "Entity"
IsActivity(c) == c.facet = "Activity"

\* lines 120-124 without the facet test
concept_roots_AnyFacet(p) ==
    IF include_concept(p) THEN _get_root_classes(p) ELSE <<>>

concept_roots(p) ==
    IF include_concept(p) THEN SelectSeq(_get_root_classes(p), IsEntity) ELSE <<>>

activity_roots(p) ==
    IF include_event(p) THEN SelectSeq(_get_root_classes(p), IsActivity) ELSE <<>>

IdsOf(classes) == {classes[i].id : i \in 1..Len(classes)}

(***************************************************************************)
(* Root selection (_select_roots).                                         *)
(***************************************************************************)
\* Insert c behind every element whose confidence is at least c's: the
\* stable descending order of sorted(..., reverse=True).
RECURSIVE InsertDesc(_, _)
InsertDesc(sorted, c) ==
    IF sorted = <<>> THEN <<c>>
    ELSE IF sorted[1].confidence >= c.confidence
         THEN <<sorted[1]>> \o InsertDesc(Tail(sorted), c)
         ELSE <<c>> \o sorted

RECURSIVE SortDesc(_, _)
SortDesc(s, acc) ==
    IF s = <<>> THEN acc ELSE SortDesc(Tail(s), InsertDesc(acc, s[1]))

\* line 448 without `or valid`
_select_roots_NoFallback(candidates, allowed_ids) ==
    LET IsValid(c) == c.oClassId \in allowed_ids
        Confident(c) == c.confidence >= ConfThreshold
    IN  Take(SortDesc(SelectSeq(SelectSeq(candidates, IsValid), Confident), <<>>), TopK)

\* lines 441-451
_select_roots(candidates, allowed_ids) ==
    LET IsValid(c) == c.oClassId \in allowed_ids
        valid == SelectSeq(candidates, IsValid)
        Confident(c) == c.confidence >= ConfThreshold
        selected == SelectSeq(valid, Confident)
    IN  IF valid = <<>> THEN <<>>
        ELSE Take(SortDesc(IF selected # <<>> THEN selected ELSE valid, <<>>),
                  TopK)

\* the oracle's root lists stored as returned
RECURSIVE FillRootMap_Unfiltered(_, _, _)
FillRootMap_Unfiltered(entries, allowed_ids, map) ==
    IF entries = <<>> THEN map
    ELSE FillRootMap_Unfiltered(Tail(entries), allowed_ids,
                                Put(map, entries[1].conceptKey, entries[1].roots))

\* lines 171-176: the map is filled entry by entry, a later entry of the
\* same conceptKey replacing the earlier one.
RECURSIVE FillRootMap(_, _, _)
FillRootMap(entries, allowed_ids, map) ==
    IF entries = <<>> THEN map
    ELSE FillRootMap(Tail(entries), allowed_ids,
                     Put(map, entries[1].conceptKey,
                         _select_roots(entries[1].roots, allowed_ids)))

(***************************************************************************)
(* Subtree expansion (_build_stage2_payload, collect_leaves).              *)
(***************************************************************************)
\* line 466 keeping only the last child of a parent
RECURSIVE ChildrenByParent_Overwrite(_, _)
ChildrenByParent_Overwrite(edges, map) ==
    IF edges = <<>> THEN map
    ELSE ChildrenByParent_Overwrite(Tail(edges),
             Put(map, edges[1].parentId, <<edges[1].childId>>))

\* children_by_parent: parentId -> the childIds of its edges, in edge order.
ChildrenByParent(edges, map) ==
    LET parents == {edges[i].parentId : i \in 1..Len(edges)}
        ChildrenOf(k) ==
            LET Of(edge) == edge.parentId = k
                mine == SelectSeq(edges, Of)
            IN  [i \in 1..Len(mine) |-> mine[i].childId]
    IN  [k \in (DOMAIN map) \cup parents |-> Get(map, k, <<>>) \o ChildrenOf(k)]

children_by_parent(p) == ChildrenByParent(p.snapshot.subclassEdges, EmptyMap)

\* One iteration of the while loop of collect_leaves on its locals st: pop
\* the last element, skip it when visited, else mark it and push its
\* children.  No iteration is left when the stack is empty.
Iterate(cbp, st) ==
    IF st.stack = <<>> THEN st
    ELSE LET node == st.stack[Len(st.stack)]
             rest == SubSeq(st.stack, 1, Len(st.stack) - 1)
         IN  IF node \in st.visited THEN [st EXCEPT !.stack = rest]
             ELSE [stack |-> rest \o Get(cbp, node, <<>>),
                   visited |-> st.visited \cup {node}]

\* the loop, four iterations at a level of the recursion
RECURSIVE Loop(_, _)
Loop(cbp, st) ==
    IF st.stack = <<>> THEN st.visited
    ELSE Loop(cbp, Iterate(cbp, Iterate(cbp, Iterate(cbp, Iterate(cbp, st)))))

Traverse(cbp, stack, visited) == Loop(cbp, [stack |-> stack, visited |-> visited])

\* the root standing in when no leaf is found
collect_leaves_RootFallback(p, root_id) ==
    LET cbp == children_by_parent(p)
        leaves == {n \in Traverse(cbp, <<root_id>>, {}) : Get(cbp, n, <<>>) = <<>>}
    IN  IF leaves = {} THEN {root_id} ELSE leaves

\* the root counted among its own leaves
collect_leaves_WithRoot(p, root_id) ==
    LET cbp == children_by_parent(p)
    IN  {n \in Traverse(cbp, <<root_id>>, {}) : Get(cbp, n, <<>>) = <<>>}
          \cup {root_id}

\* collect_leaves as a set: the visited nodes without children.  The list the
\* code returns is this set in the iteration order of a Python set.
collect_leaves(p, root_id) ==
    LET cbp == children_by_parent(p)
    IN  {n \in Traverse(cbp, <<root_id>>, {}) : Get(cbp, n, <<>>) = <<>>}

\* the subsets of S that lack k of its elements
RECURSIVE AllBut(_, _)
AllBut(S, k) ==
    IF k <= 0 THEN {S} ELSE UNION {AllBut(S \ {x}, k - 1) : x \in S}

\* leaves[:200] of a list in set order: the whole set when it fits, else any
\* LeafCap of its elements.
LeafSlices(leaves) ==
    IF Cardinality(leaves) <= LeafCap THEN {leaves}
    ELSE AllBut(leaves, Cardinality(leaves) - LeafCap)

\* lines 527-529 with the roots of the event alone
roots_for_subtrees_EventOnly(crm, er) == {er[i].oClassId : i \in 1..Len(er)}

\* the roots whose subtrees are expanded (lines 527-529); the third operand
\* of the union in the code is contained in the second.
roots_for_subtrees(crm, er) ==
    {er[i].oClassId : i \in 1..Len(er)}
        \cup UNION {{crm[k][i].oClassId : i \in 1..Len(crm[k])} : k \in DOMAIN crm}

\* one slice of its leaves for each root of rs, the slice kept to the ids of
\* class_index
RECURSIVE SliceMaps(_, _, _)
SliceMaps(p, rs, ids) ==
    IF rs = {} THEN {EmptyMap}
    ELSE LET r == CHOOSE x \in rs : TRUE
             slices == {S \cap ids : S \in LeafSlices(collect_leaves(p, r))}
         IN  {Put(f, r, slice) : f \in SliceMaps(p, rs \ {r}, ids), slice \in slices}

\* The possible values of subtree_candidates (lines 526-547), each entry list
\* reduced to the set of its ids: a root without leaves gets no key; a leaf
\* absent from class_index gets no entry.
SubtreeChoices(p, rs) ==
    LET withLeaves == {r \in rs : collect_leaves(p, r) # {}}
        ids == IdsOf(p.snapshot.oClasses)
    IN  IF \A r \in withLeaves : Cardinality(collect_leaves(p, r)) <= LeafCap
        THEN {[r \in withLeaves |-> collect_leaves(p, r) \cap ids]}
        ELSE SliceMaps(p, withLeaves, ids)

\* every ordering of a finite set: the orders a loop over a Python set may take
RECURSIVE Orderings(_)
Orderings(S) ==
    IF S = {} THEN {<<>>}
    ELSE UNION {{<<x>> \o o : o \in Orderings(S \ {x})} : x \in S}

Warn(message) == [stage |-> "validation", message |-> message]

\* lines 485-495 without the `continue`: every concept becomes an item
concept_items_All(p, crm) ==
    LET RootId(r) == r.oClassId
        RootsOf(c) == Get(crm, c.conceptKey, <<>>)
        Item(c) == [conceptKey |-> c.conceptKey, sourceText |-> c.sourceText,
                    rootCandidates |-> [idx \in 1..Len(RootsOf(c)) |->
                                           RootId(RootsOf(c)[idx])]]
    IN  IF include_concept(p)
          THEN [idx \in 1..Len(p.concepts) |-> Item(p.concepts[idx])]
          ELSE <<>>

\* lines 482-500: the concepts with selected roots, each with its root ids
concept_items(p, crm) ==
    LET HasRoots(c) == Get(crm, c.conceptKey, <<>>) # <<>>
        RootId(r) == r.oClassId
        Item(c) == [conceptKey |-> c.conceptKey, sourceText |-> c.sourceText,
                    rootCandidates |-> [idx \in 1..Len(crm[c.conceptKey]) |->
                                           RootId(crm[c.conceptKey][idx])]]
        sent == SelectSeq(p.concepts, HasRoots)
    IN  IF include_concept(p) THEN [idx \in 1..Len(sent) |-> Item(sent[idx])]
        ELSE <<>>

\* the warnings _build_stage2_payload appends to root_errors, the roots
\* without leaves in the order noLeafOrder
Stage2Warnings(p, crm, er, noLeafOrder) ==
    LET NoRoots(c) == Get(crm, c.conceptKey, <<>>) = <<>>
        ConceptWarn(c) == [stage |-> "validation",
                           message |-> "no roots selected for concept",
                           conceptKey |-> c.conceptKey]
        RootWarn(r) == [stage |-> "validation",
                        message |-> "no leaf candidates for root",
                        rootId |-> r]
    IN  (IF include_concept(p)
           THEN LET skipped == SelectSeq(p.concepts, NoRoots)
                IN  [idx \in 1..Len(skipped) |-> ConceptWarn(skipped[idx])]
           ELSE <<>>)
        \o (IF include_event(p) /\ er = <<>>
              THEN IF ~(Truthy(p.eventTitle) \/ Truthy(p.eventNormalizedTextEn))
                     THEN <<Warn("event context missing; event classification skipped")>>
                   ELSE IF activity_roots(p) = <<>>
                     THEN <<Warn("no Activity roots in snapshot; event classification skipped")>>
                   ELSE <<Warn("event root selection empty; event classification skipped")>>
              ELSE <<>>)
        \o [idx \in 1..Len(noLeafOrder) |-> RootWarn(noLeafOrder[idx])]

\* the dict _build_stage2_payload returns; event is <<>> for None, else a
\* one-element sequence holding the event payload
Stage2Payload(p, crm, er, subtree_candidates) ==
    LET RootId(r) == r.oClassId
    IN  [mode |-> p.mode, scope |-> p.scope,
         concepts |-> concept_items(p, crm),
         event |-> IF include_event(p) /\ er # <<>>
                     THEN <<[title |-> IF Truthy(p.eventTitle) THEN p.eventTitle
                                       ELSE _infer_event_title(p),
                             normalizedTextEn |-> p.eventNormalizedTextEn,
                             rootCandidates |-> [idx \in 1..Len(er) |-> RootId(er[idx])]]>>
                   ELSE <<>>,
         rootSubtrees |-> subtree_candidates]

NoPayload == [mode |-> None]

(***************************************************************************)
(* Validator / repair (classify, lines 237-415).                           *)
(***************************************************************************)
\* the eventTitle taken before the eventId
resolved_event_id_TitleFirst(p) ==
    IF Truthy(p.eventTitle) THEN p.eventTitle
    ELSE IF Truthy(p.eventId) THEN p.eventId
    ELSE _infer_event_title(p)

\* resolved_event_id (lines 244-248)
resolved_event_id(p) ==
    IF Truthy(p.eventId) THEN p.eventId
    ELSE IF Truthy(p.eventTitle) THEN p.eventTitle
    ELSE _infer_event_title(p)

\* the union of the leaf ids of the given roots' subtrees (lines 277-279)
LeavesOfRoots(root_leaf_map, rootCandidates) ==
    UNION {Get(root_leaf_map, rootCandidates[i], {}) :
              i \in 1..Len(rootCandidates)}

\* concept_leaf_map (lines 274-280): conceptKey -> allowed leaf ids, for the
\* concepts of the stage-2 payload
concept_leaf_map(p, s2) ==
    IF include_concept(p)
      THEN [k \in {s2.concepts[i].conceptKey : i \in 1..Len(s2.concepts)} |->
              LET i == CHOOSE j \in 1..Len(s2.concepts) :
                          /\ s2.concepts[j].conceptKey = k
                          /\ \A m \in (j + 1)..Len(s2.concepts) :
                                s2.concepts[m].conceptKey # k
              IN  LeavesOfRoots(s2.rootSubtrees, s2.concepts[i].rootCandidates)]
      ELSE [k \in {} |-> {}]

\* event_leaf_ids (lines 282-285)
event_leaf_ids(p, s2) ==
    IF include_event(p) /\ s2.event # <<>>
      THEN LeavesOfRoots(s2.rootSubtrees, s2.event[1].rootCandidates)
      ELSE {}

\* the count taken from the sample
DropWarn_CountsSample(message, dropped) ==
    [stage |-> "validation", message |-> message,
     droppedCount |-> Len(Take(dropped, DropSample)),
     dropped |-> Take(dropped, DropSample)]

\* lines 304-312 and 336-344
DropWarn(message, dropped) ==
    [stage |-> "validation", message |-> message,
     droppedCount |-> Len(dropped), dropped |-> Take(dropped, DropSample)]

\* lines 249-263: scope and identity of the event activities
ScopeEventActivities(p, eventActivities) ==
    LET rid == resolved_event_id(p)
        SetId(item) == [item EXCEPT !.eventId = rid]
    IN  IF ~include_event(p) THEN <<>>
        ELSE IF ~Truthy(rid) THEN <<>>
        ELSE [idx \in 1..Len(eventActivities) |-> SetId(eventActivities[idx])]

\* lines 265-266
ScopeClassifications(p, classifications) ==
    IF ~include_concept(p) THEN <<>> ELSE classifications

\* the membership test of line 292 forgotten
InCandidateLeaves_KeyOnly(clm, item) == item.conceptKey \in DOMAIN clm

\* line 292 negated: the classification stays
InCandidateLeaves(clm, item) ==
    /\ item.conceptKey \in DOMAIN clm
    /\ clm[item.conceptKey] # {}
    /\ item.oClassId \in clm[item.conceptKey]

\* line 326 without the membership test
InEventLeaves_NonEmpty(elids, item) == elids # {}

\* line 326: the event activity stays
InEventLeaves(elids, item) == elids # {} /\ item.oClassId \in elids

\* line 354 testing the proposed classes only
StripAdditions_ClassesOnly(p, parsed) ==
    /\ p.mode = "existing_only"
    /\ parsed.oClassesToAdd # <<>>

\* lines 353-354: the additions are stripped
StripAdditions(p, parsed) ==
    /\ p.mode = "existing_only"
    /\ (parsed.oClassesToAdd # <<>> \/ parsed.subclassEdgesToAdd # <<>>)

\* ok recomputed from the errors alone
FinalOk_FromErrors(parsed) == parsed.errors = <<>>

\* lines 414-415 on the ok of the reply
FinalOk(parsed) == IF parsed.errors # <<>> THEN FALSE ELSE parsed.ok

\* lines 237-415 applied to the reply `parsed` of the leaf call: the
\* response object as it is returned at line 417
Validate(p, s2, rw, parsed) ==
    LET w0 == parsed.warnings \o rw
        \* lines 244-266
        ev1 == ScopeEventActivities(p, parsed.eventActivities)
        w1 == IF /\ include_event(p) /\ ~Truthy(resolved_event_id(p))
                 /\ parsed.eventActivities # <<>>
                THEN Append(w0, Warn("event context missing; ignoring eventActivities"))
                ELSE w0
        cls1 == ScopeClassifications(p, parsed.classifications)
        \* lines 268-285
        clm == concept_leaf_map(p, s2)
        elids == event_leaf_ids(p, s2)
        \* lines 287-312
        Kept(item) == InCandidateLeaves(clm, item)
        Dropped(item) == ~InCandidateLeaves(clm, item)
        dropped2 == SelectSeq(cls1, Dropped)
        cls2 == SelectSeq(cls1, Kept)
        w2 == IF dropped2 # <<>>
                THEN Append(w1, DropWarn("leaf-only: stripped classifications not in candidate leaves", dropped2))
                ELSE w1
        \* lines 313-320
        w3 == IF include_concept(p) /\ s2.concepts # <<>> /\ cls2 = <<>>
                THEN Append(w2, [stage |-> "classification",
                                 message |-> "no concept classifications returned; left unclassified",
                                 count |-> Len(s2.concepts)])
                ELSE w2
        \* lines 322-344
        KeptEv(item) == InEventLeaves(elids, item)
        DroppedEv(item) == ~InEventLeaves(elids, item)
        droppedEv2 == SelectSeq(ev1, DroppedEv)
        ev2 == SelectSeq(ev1, KeptEv)
        w4 == IF droppedEv2 # <<>>
                THEN Append(w3, DropWarn("leaf-only: stripped event activities not in candidate leaves", droppedEv2))
                ELSE w3
        \* lines 345-351
        w5 == IF include_event(p) /\ s2.event # <<>> /\ ev2 = <<>>
                THEN Append(w4, [stage |-> "classification",
                                 message |-> "no event activities returned; left unclassified"])
                ELSE w4
        \* lines 353-362
        existing == p.mode = "existing_only"
        strip == StripAdditions(p, parsed)
        w6 == IF strip
                THEN Append(w5, Warn("existing_only mode: stripped class/edge additions"))
                ELSE w5
        \* lines 364-412
        allowed_ids == {c \in IdsOf(p.snapshot.oClasses) : Truthy(c)}
        InSnapshot(item) == item.oClassId \in allowed_ids
        NotInSnapshot(item) == ~InSnapshot(item)
        dropped3 == IF existing THEN SelectSeq(cls2, NotInSnapshot) ELSE <<>>
        cls3 == IF existing THEN SelectSeq(cls2, InSnapshot) ELSE cls2
        w7 == IF dropped3 # <<>>
                THEN Append(w6, DropWarn("existing_only mode: stripped classifications not in snapshot", dropped3))
                ELSE w6
        droppedEv3 == IF existing THEN SelectSeq(ev2, NotInSnapshot) ELSE <<>>
        ev3 == IF existing THEN SelectSeq(ev2, InSnapshot) ELSE ev2
        w8 == IF droppedEv3 # <<>>
                THEN Append(w7, DropWarn("existing_only mode: stripped event activities not in snapshot", droppedEv3))
                ELSE w7
    IN  [ok |-> FinalOk(parsed),
         classifications |-> cls3,
         eventActivities |-> ev3,
         oClassesToAdd |-> IF strip THEN <<>> ELSE parsed.oClassesToAdd,
         subclassEdgesToAdd |-> IF strip THEN <<>> ELSE parsed.subclassEdgesToAdd,
         errors |-> parsed.errors,
         warnings |-> w8]

(***************************************************************************)
(* The oracle: the replies a call may return.                              *)
(***************************************************************************)
\* a root-selection reply names at most MaxCands root candidates in all, a
\* leaf reply at most MaxRecs records in all
MaxCands == 2
MaxRecs == 2

OtherKey == "Other::key"
NewId == "X_New"
OracleError == [stage |-> "llm", message |-> "oracle reported error"]

\* a fixed enumeration of a finite set
RECURSIVE Enum(_)
Enum(S) ==
    IF S = {} THEN <<>>
    ELSE LET x == CHOOSE y \in S : TRUE IN <<x>> \o Enum(S \ {x})

\* the sub-lists of s of at most n elements.  The code handles the records of
\* a reply list one by one, whatever their position, so the replies are taken
\* up to the order of their records and without repeated records.
RECURSIVE SubLists(_, _)
SubLists(s, n) ==
    IF n <= 0 \/ s = <<>> THEN {<<>>}
    ELSE SubLists(Tail(s), n)
           \cup {<<s[1]>> \o t : t \in SubLists(Tail(s), n - 1)}

KeysOf(p) == {p.concepts[i].conceptKey : i \in 1..Len(p.concepts)}

\* the keys a reply may name: those of the request and an invented one
OracleKeys(p) == KeysOf(p) \cup {OtherKey}

\* the ids a reply may name: those of the snapshot and an invented one
OracleIds(p) == IdsOf(p.snapshot.oClasses) \cup {NewId}

Confidences == {30, 90}

\* RootCandidate (service.py 56-59)
RootCandidates(p) == [oClassId : OracleIds(p), confidence : Confidences]

RECURSIVE TotalRoots(_)
TotalRoots(entries) ==
    IF entries = <<>> THEN 0 ELSE Len(entries[1].roots) + TotalRoots(Tail(entries))

\* lists of RootSelection (service.py 62-64): at most one entry per key of
\* ks, n candidates in all
RECURSIVE RootSelections(_, _, _)
RootSelections(ks, cands, n) ==
    IF ks = <<>> THEN {<<>>}
    ELSE RootSelections(Tail(ks), cands, n)
           \cup UNION {{<<[conceptKey |-> ks[1], roots |-> r]>> \o rest :
                           rest \in RootSelections(Tail(ks), cands, n - Len(r))} :
                        r \in SubLists(cands, n)}

\* RootSelectionResponse (service.py 67-70)
RootReplies(p) ==
    LET cands == Enum(RootCandidates(p))
    IN  UNION {[conceptRoots : {cr},
                eventRoots : SubLists(cands, MaxCands - TotalRoots(cr)),
                errors : {<<>>, <<OracleError>>}] :
               cr \in RootSelections(Enum(OracleKeys(p)), cands, MaxCands)}

\* Classification and EventActivityClassification (dtos.py 40-53)
Classifications(p) == [conceptKey : OracleKeys(p), oClassId : OracleIds(p)]
EventActivities(p) == [eventId : {None, "wrong-id"}, oClassId : OracleIds(p)]

NewClass == [id |-> NewId, facet |-> "Activity", isRoot |-> FALSE]
NewEdge == [childId |-> NewId, parentId |-> "A_Activity"]

\* ClassifyResponse as the leaf call parses it (dtos.py 130-137)
LeafReplies(p) ==
    UNION {[ok : BOOLEAN,
            classifications : {cls},
            eventActivities : SubLists(Enum(EventActivities(p)), MaxRecs - Len(cls)),
            oClassesToAdd : {<<>>, <<NewClass>>},
            subclassEdgesToAdd : {<<>>, <<NewEdge>>},
            errors : {<<>>, <<OracleError>>},
            warnings : {<<>>}] :
           cls \in SubLists(Enum(Classifications(p)), MaxRecs)}

\* a reply with more records outside the candidates than a warning samples
BulkLen == 51
BulkReplies ==
    {[ok |-> TRUE,
      classifications |-> [i \in 1..BulkLen |-> [conceptKey |-> OtherKey, oClassId |-> NewId]],
      eventActivities |-> [i \in 1..BulkLen |-> [eventId |-> None, oClassId |-> NewId]],
      oClassesToAdd |-> <<>>,
      subclassEdgesToAdd |-> <<>>,
      errors |-> <<>>,
      warnings |-> <<>>]}

NoReply == [ok |-> None]

(***************************************************************************)
(* The worker thread of an oracle call: asyncio.to_thread runs               *)
(* _call_openai_sync, which first takes the module-level client.            *)
(***************************************************************************)
Idle == [at |-> "idle", client |-> None]
Pending == [at |-> "pending", client |-> None]

\* line 26: `if _client is None`
ClientCheck(i) ==
    /\ thread[i].at = "pending"
    /\ thread' = [thread EXCEPT ![i].at =
                     IF _client = None THEN "creating" ELSE "returning"]
    /\ UNCHANGED <<enabled, _client, payload, pc, calls, concept_root_map,
                   event_roots, root_warnings, stage2_payload, leaf_reply,
                   response, exit, cur, parked, http, args, result>>

\* lines 27-30: `_client = OpenAI(...)`, the client named after its creator
ClientCreate(i) ==
    /\ thread[i].at = "creating"
    /\ _client' = i
    /\ thread' = [thread EXCEPT ![i].at = "returning"]
    /\ UNCHANGED <<enabled, payload, pc, calls, concept_root_map,
                   event_roots, root_warnings, stage2_payload, leaf_reply,
                   response, exit, cur, parked, http, args, result>>

\* line 31: `return _client`, the global read again
ClientReturn(i) ==
    /\ thread[i].at = "returning"
    /\ thread' = [thread EXCEPT ![i] = [at |-> "ready", client |-> _client]]
    /\ UNCHANGED <<enabled, _client, payload, pc, calls, concept_root_map,
                   event_roots, root_warnings, stage2_payload, leaf_reply,
                   response, exit, cur, parked, http, args, result>>

\* lines 38-49: the worker thread up to the request it sends
_call_openai_sync ==
    \E i \in DOMAIN thread : ClientCheck(i) \/ ClientCreate(i) \/ ClientReturn(i)

(***************************************************************************)
(* classify, step by step.                                                 *)
(***************************************************************************)
Disabled ==
    ClassifyResponse(FALSE,
        <<[stage |-> "disabled", message |-> "openrouter_key_missing"]>>, <<>>)

NoRootsError ==
    ClassifyResponse(FALSE,
        <<[stage |-> "validation",
           message |-> "no root oclasses available in snapshot"]>>, <<>>)

\* the except branch returning a default response
LlmCallError_EmptySuccess == ClassifyResponse(TRUE, <<>>, <<>>)

LlmCallError ==
    ClassifyResponse(FALSE,
        <<[stage |-> "llm_call", message |-> "oracle call raised"]>>, <<>>)

\* the snapshot examined before the credentials
EntryCheck_RootsFirst(en, p) ==
    IF _get_root_classes(p) = <<>> THEN "no_roots"
    ELSE IF ~en THEN "disabled"
    ELSE "proceed"

\* lines 101-117: where classify goes at entry
EntryCheck(en, p) ==
    IF ~en THEN "disabled"
    ELSE IF _get_root_classes(p) = <<>> THEN "no_roots"
    ELSE "proceed"

\* lines 100-162: entry checks, then the root-selection call is issued
Start ==
    /\ pc = "INIT"
    /\ LET e == EntryCheck(enabled, payload)
       IN  /\ pc' = IF e = "proceed" THEN "ROOTS_REQUESTED" ELSE "RETURNED"
           /\ exit' = IF e = "proceed" THEN None ELSE e
           /\ response' = IF e = "disabled" THEN Disabled
                          ELSE IF e = "no_roots" THEN NoRootsError
                          ELSE response
           /\ calls' = IF e = "proceed" THEN Append(calls, "root") ELSE calls
    /\ thread' = IF pc' = "ROOTS_REQUESTED" THEN [thread EXCEPT ![cur] = Pending]
                 ELSE thread
    /\ UNCHANGED <<_client, args, result, cur, parked, http>>
    /\ UNCHANGED <<enabled, payload, concept_root_map, event_roots,
                   root_warnings, stage2_payload, leaf_reply>>

\* lines 163-167: the root-selection call raised
RootCallFails ==
    /\ pc = "ROOTS_REQUESTED"
    /\ thread[cur].at = "ready"
    /\ pc' = "RETURNED"
    /\ exit' = "root_call_failed"
    /\ response' = LlmCallError
    /\ thread' = [thread EXCEPT ![cur] = Idle]
    /\ UNCHANGED <<_client, args, result, cur, parked, http>>
    /\ UNCHANGED <<enabled, payload, calls, concept_root_map, event_roots,
                   root_warnings, stage2_payload, leaf_reply>>

\* lines 183-197: the warning about concepts without an entry
MissingWarnings(p, crm) ==
    LET Missing(c) == c.conceptKey \notin DOMAIN crm
        Key(c) == c.conceptKey
        unmapped == SelectSeq(p.concepts, Missing)
        missing_concepts == [idx \in 1..Len(unmapped) |-> Key(unmapped[idx])]
    IN  IF include_concept(p) /\ missing_concepts # <<>>
          THEN <<[stage |-> "validation",
                  message |-> "root selection missing for some concepts",
                  missingCount |-> Len(missing_concepts),
                  missing |-> Take(missing_concepts, DropSample)]>>
          ELSE <<>>

\* lines 156-197: the root-selection call returned root_selection
RootCallReturns(replies) ==
    /\ pc = "ROOTS_REQUESTED"
    /\ thread[cur].at = "ready"
    /\ pc' = "ROOTS_VALIDATED"
    /\ \E root_selection \in replies :
       LET crm == IF include_concept(payload)
                    THEN FillRootMap(root_selection.conceptRoots,
                                     IdsOf(concept_roots(payload)), EmptyMap)
                    ELSE EmptyMap
       IN  /\ concept_root_map' = crm
           /\ event_roots' =
                 IF include_event(payload)
                   THEN _select_roots(root_selection.eventRoots,
                                      IdsOf(activity_roots(payload)))
                   ELSE <<>>
           /\ root_warnings' = root_selection.errors \o MissingWarnings(payload, crm)
    /\ thread' = [thread EXCEPT ![cur] = Idle]
    /\ UNCHANGED <<_client, args, result, cur, parked, http>>
    /\ UNCHANGED <<enabled, payload, calls, stage2_payload, leaf_reply,
                   response, exit>>

\* line 209 asking for an empty rootSubtrees as well
Stage2Empty_NoSubtrees(s2) ==
    s2.concepts = <<>> /\ s2.event = <<>> /\ DOMAIN s2.rootSubtrees = {}

\* line 209
Stage2Empty(s2) == s2.concepts = <<>> /\ s2.event = <<>>

\* lines 199-230: the stage-2 payload is built; without candidates classify
\* returns, else the leaf call is issued
BuildStage2 ==
    /\ pc = "ROOTS_VALIDATED"
    /\ LET rs == roots_for_subtrees(concept_root_map, event_roots)
           noLeaf == {r \in rs : collect_leaves(payload, r) = {}}
       IN  \E subtree_candidates \in SubtreeChoices(payload, rs) :
           \E order \in Orderings(noLeaf) :
             LET s2 == Stage2Payload(payload, concept_root_map, event_roots,
                                     subtree_candidates)
                 rw == root_warnings \o
                         Stage2Warnings(payload, concept_root_map, event_roots, order)
             IN  /\ stage2_payload' = s2
                 /\ IF Stage2Empty(s2)
                      THEN /\ root_warnings' =
                                Append(rw, Warn("no candidates for stage2 classification"))
                           /\ response' = ClassifyResponse(TRUE, <<>>, root_warnings')
                           /\ pc' = "RETURNED"
                           /\ exit' = "short_circuit"
                           /\ calls' = calls
                      ELSE /\ root_warnings' = rw
                           /\ pc' = "LEAVES_REQUESTED"
                           /\ calls' = Append(calls, "leaf")
                           /\ UNCHANGED <<response, exit>>
    \* the selected roots are not read again: the payload carries their ids
    /\ concept_root_map' = EmptyMap
    /\ event_roots' = <<>>
    /\ thread' = IF pc' = "LEAVES_REQUESTED" THEN [thread EXCEPT ![cur] = Pending]
                 ELSE thread
    /\ UNCHANGED <<_client, args, result, cur, parked, http>>
    /\ UNCHANGED <<enabled, payload, leaf_reply>>

\* lines 231-235: the leaf call raised
LeafCallFails ==
    /\ pc = "LEAVES_REQUESTED"
    /\ thread[cur].at = "ready"
    /\ pc' = "RETURNED"
    /\ exit' = "leaf_call_failed"
    /\ response' = LlmCallError
    /\ thread' = [thread EXCEPT ![cur] = Idle]
    /\ UNCHANGED <<_client, args, result, cur, parked, http>>
    /\ UNCHANGED <<enabled, payload, calls, concept_root_map, event_roots,
                   root_warnings, stage2_payload, leaf_reply>>

\* lines 225-417: the leaf call returned parsed; it is repaired and returned
LeafCallReturns(replies) ==
    /\ pc = "LEAVES_REQUESTED"
    /\ thread[cur].at = "ready"
    /\ pc' = "RETURNED"
    /\ exit' = "validated"
    /\ \E parsed \in replies :
          /\ leaf_reply' = parsed
          /\ response' = Validate(payload, stage2_payload, root_warnings, parsed)
    /\ thread' = [thread EXCEPT ![cur] = Idle]
    /\ UNCHANGED <<_client, args, result, cur, parked, http>>
    /\ UNCHANGED <<enabled, payload, calls, concept_root_map, event_roots,
                   root_warnings, stage2_payload>>

Next ==
    \/ Start
    \/ _call_openai_sync
    \/ RootCallFails
    \/ RootCallReturns(RootReplies(payload))
    \/ BuildStage2
    \/ LeafCallFails
    \/ LeafCallReturns(LeafReplies(payload) \cup BulkReplies)

(***************************************************************************)
(* Requests.                                                               *)
(***************************************************************************)
OClass(id, facet, isRoot) == [id |-> id, facet |-> facet, isRoot |-> isRoot]
Edge(parentId, childId) == [childId |-> childId, parentId |-> parentId]

\* the snapshot of scripts/test_classify_leaf_only.py (Scenario A): two
\* flagged roots, each with one child
SnapshotA ==
    [oClasses |-> <<OClass("E_Place", "Entity", TRUE),
                    OClass("E_Restaurant", "Entity", FALSE),
                    OClass("A_Activity", "Activity", TRUE),
                    OClass("A_Climbing", "Activity", FALSE)>>,
     subclassEdges |-> <<Edge("E_Place", "E_Restaurant"),
                         Edge("A_Activity", "A_Climbing")>>]

\* no class at all (the example request of dtos.py 121)
SnapshotEmpty == [oClasses |-> <<>>, subclassEdges |-> <<>>]

\* no flag, every class on a cycle: no root (Scenario C)
SnapshotCycle ==
    [oClasses |-> <<OClass("E_Place", "Entity", FALSE),
                    OClass("E_Restaurant", "Entity", FALSE)>>,
     subclassEdges |-> <<Edge("E_Place", "E_Restaurant"),
                         Edge("E_Restaurant", "E_Place")>>]

\* a flagged root on a cycle (it reaches no leaf) and a flagged root without
\* children (it is its own leaf)
SnapshotRootCycle ==
    [oClasses |-> <<OClass("E_Place", "Entity", TRUE),
                    OClass("E_Restaurant", "Entity", FALSE),
                    OClass("A_Activity", "Activity", TRUE)>>,
     subclassEdges |-> <<Edge("E_Place", "E_Restaurant"),
                         Edge("E_Restaurant", "E_Place")>>]

\* a root whose only child is no class of the snapshot
SnapshotDangling ==
    [oClasses |-> <<OClass("E_Place", "Entity", TRUE),
                    OClass("A_Activity", "Activity", TRUE),
                    OClass("A_Climbing", "Activity", FALSE)>>,
     subclassEdges |-> <<Edge("E_Place", "E_Restaurant"),
                         Edge("A_Activity", "A_Climbing")>>]

\* no flag: the roots are the classes without a parent
SnapshotStructural ==
    [oClasses |-> <<OClass("E_Place", "Entity", FALSE),
                    OClass("E_Restaurant", "Entity", FALSE),
                    OClass("A_Activity", "Activity", FALSE)>>,
     subclassEdges |-> <<Edge("E_Place", "E_Restaurant")>>]

\* one flagged root and a class without a parent that is not flagged
SnapshotPartial ==
    [oClasses |-> <<OClass("E_Place", "Entity", TRUE),
                    OClass("A_Activity", "Activity", FALSE)>>,
     subclassEdges |-> <<>>]

Snapshots ==
    {SnapshotA, SnapshotEmpty, SnapshotCycle, SnapshotRootCycle,
     SnapshotDangling, SnapshotStructural, SnapshotPartial}

\* ConceptSample (dtos.py 28-37)
ConceptA == [conceptKey |-> "Place::X", sourceText |-> "lunch at X"]
ConceptNoText == [conceptKey |-> "Place::X", sourceText |-> None]
ConceptB == [conceptKey |-> "Person::Y", sourceText |-> "with Y"]

\* the request of scripts/test_classify_leaf_only.py
RequestA ==
    [concepts |-> <<ConceptA>>, snapshot |-> SnapshotA,
     mode |-> "existing_only", scope |-> "both",
     eventId |-> "evt-1", eventTitle |-> "Climbing with Alice",
     eventNormalizedTextEn |-> None]

\* ClassifyRequest (dtos.py 101-108): every snapshot under every mode and
\* scope, and the event fields and concept texts in every combination
Requests ==
    [concepts : {<<ConceptA>>}, snapshot : Snapshots,
     mode : {"existing_only", "allow_new_leaf"},
     scope : {"concept", "event", "both"},
     eventId : {"evt-1"}, eventTitle : {"Climbing with Alice"},
     eventNormalizedTextEn : {None}]
    \cup
    [concepts : {<<>>, <<ConceptA>>, <<ConceptNoText>>, <<ConceptNoText, ConceptB>>},
     snapshot : {SnapshotA},
     mode : {"existing_only"},
     scope : {"event"},
     eventId : {None, "evt-1"}, eventTitle : {None, "Climbing with Alice"},
     eventNormalizedTextEn : {None, "climbing with alice"}]

\* the locals of a classify coroutine, as a suspended coroutine keeps them
Locals ==
    [payload |-> payload, pc |-> pc, calls |-> calls,
     concept_root_map |-> concept_root_map, event_roots |-> event_roots,
     root_warnings |-> root_warnings, stage2_payload |-> stage2_payload,
     leaf_reply |-> leaf_reply, response |-> response, exit |-> exit]

NewLocals(p, entry) ==
    [payload |-> p, pc |-> entry, calls |-> <<>>,
     concept_root_map |-> EmptyMap, event_roots |-> <<>>,
     root_warnings |-> <<>>, stage2_payload |-> NoPayload,
     leaf_reply |-> NoReply, response |-> NoResponse, exit |-> None]

\* no request has entered classify yet: r1 holds the event loop, the
\* requests of `others` wait
RequestsInit(requests, entry, others) ==
    /\ enabled \in BOOLEAN
    /\ payload \in requests
    /\ pc = entry
    /\ calls = <<>>
    /\ concept_root_map = EmptyMap
    /\ event_roots = <<>>
    /\ root_warnings = <<>>
    /\ stage2_payload = NoPayload
    /\ leaf_reply = NoReply
    /\ response = NoResponse
    /\ exit = None
    /\ _client = None
    /\ cur = "r1"
    /\ parked \in [others -> {NewLocals(p, entry) : p \in requests}]
    /\ thread = [i \in {"r1"} \cup others |-> Idle]
    /\ http = None

RequestInit(requests, entry) == RequestsInit(requests, entry, {})

NoArgs == [fn |-> None]
NoResult == [fn |-> None]

InitWith(requests) ==
    /\ RequestInit(requests, "INIT")
    /\ args = NoArgs
    /\ result = NoResult

\* a function of the service is applied on its own to one of `inputs`
InitApply(inputs) ==
    /\ RequestInit({RequestA}, "INIT")
    /\ enabled
    /\ args \in inputs
    /\ result = NoResult

Init == InitWith(Requests)

Spec == Init /\ [][Next]_vars

(***************************************************************************)
(* Scenario A: the request and the oracle stub of                          *)
(* scripts/test_classify_leaf_only.py, the stub's replies varied.          *)
(***************************************************************************)
StubConceptRoots == [conceptKey |-> "Place::X",
                     roots |-> <<[oClassId |-> "E_Place", confidence |-> 90]>>]
StubEventRoot == [oClassId |-> "A_Activity", confidence |-> 95]

RootRepliesA(p) ==
    [conceptRoots : SubLists(<<StubConceptRoots>>, 1),
     eventRoots : SubLists(<<StubEventRoot>>, 1),
     errors : {<<>>}]

LeafRepliesA(p) ==
    [ok : {TRUE},
     classifications :
        SubLists(<<[conceptKey |-> "Place::X", oClassId |-> "E_Place"],
                   [conceptKey |-> "Place::X", oClassId |-> "E_Restaurant"]>>, 1),
     eventActivities :
        SubLists(Enum([eventId : {None, "wrong-id"},
                       oClassId : {"A_Climbing", "A_Activity", NewId}]), 2),
     oClassesToAdd : {<<>>},
     subclassEdgesToAdd : {<<>>},
     errors : {<<>>},
     warnings : {<<>>}]

InitA == InitWith({RequestA})

NextA ==
    \/ Start
    \/ _call_openai_sync
    \/ RootCallFails
    \/ RootCallReturns(RootRepliesA(payload))
    \/ BuildStage2
    \/ LeafCallFails
    \/ LeafCallReturns(LeafRepliesA(payload))

SpecA == InitA /\ [][NextA]_vars

(***************************************************************************)
(* Two requests in one process.  The coroutines share the event loop and   *)
(* give it up where classify awaits asyncio.to_thread (lines 156 and 225); *)
(* the worker threads of the oracle calls run beside them.                  *)
(***************************************************************************)
\* the oracle call made on the event loop itself
AwaitPoints_Blocking == {"INIT", "RETURNED"}

\* where the coroutine holding the event loop lets another one run: before
\* it starts, at its two awaits, after it returned
AwaitPoints == {"INIT", "ROOTS_REQUESTED", "LEAVES_REQUESTED", "RETURNED"}

\* the warnings kept in one list for all requests
Frame_SharedWarnings(l) == [l EXCEPT !.root_warnings = root_warnings]

\* the locals a coroutine finds when it resumes: its own frame
Frame(l) == l

\* the event loop passes from the coroutine of cur to the coroutine of j
SwitchTo(j) ==
    /\ pc \in AwaitPoints
    /\ j \in DOMAIN parked
    /\ cur' = j
    /\ parked' = [i \in (DOMAIN parked \ {j}) \cup {cur} |->
                     IF i = cur THEN Locals ELSE parked[i]]
    /\ LET l == Frame(parked[j])
       IN  /\ payload' = l.payload
           /\ pc' = l.pc
           /\ calls' = l.calls
           /\ concept_root_map' = l.concept_root_map
           /\ event_roots' = l.event_roots
           /\ root_warnings' = l.root_warnings
           /\ stage2_payload' = l.stage2_payload
           /\ leaf_reply' = l.leaf_reply
           /\ response' = l.response
           /\ exit' = l.exit
    /\ UNCHANGED <<enabled, _client, thread, http, args, result>>

Switch == \E j \in DOMAIN parked : SwitchTo(j)

RequestEvt ==
    [concepts |-> <<ConceptB>>, snapshot |-> SnapshotA,
     mode |-> "existing_only", scope |-> "event",
     eventId |-> "evt-2", eventTitle |-> "Climbing with Alice",
     eventNormalizedTextEn |-> None]

PairRequests == {RequestA, RequestEvt}

LeafRepliesPair(p) ==
    [ok : {TRUE},
     classifications :
        SubLists(<<[conceptKey |-> "Place::X", oClassId |-> "E_Place"],
                   [conceptKey |-> "Place::X", oClassId |-> "E_Restaurant"]>>, 1),
     eventActivities :
        SubLists(<<[eventId |-> None, oClassId |-> "A_Climbing"],
                   [eventId |-> None, oClassId |-> "A_Activity"]>>, 1),
     oClassesToAdd : {<<>>},
     subclassEdgesToAdd : {<<>>},
     errors : {<<>>},
     warnings : {<<>>}]

InitPair ==
    /\ RequestsInit(PairRequests, "INIT", {"r2"})
    /\ enabled
    /\ args = NoArgs
    /\ result = NoResult

\* a step of the coroutine that holds the event loop
Run ==
    \/ Start
    \/ RootCallFails
    \/ RootCallReturns(RootRepliesA(payload))
    \/ BuildStage2
    \/ LeafCallFails
    \/ LeafCallReturns(LeafRepliesPair(payload))

NextPair ==
    \/ Switch
    \/ _call_openai_sync
    \/ Run

SpecPair == InitPair /\ [][NextPair]_vars

\* the steps of request i: of its coroutine when it holds the event loop, of
\* the worker thread of its oracle call
RunOf(i) == cur = i /\ Run
WorkerOf(i) == ClientCheck(i) \/ ClientCreate(i) \/ ClientReturn(i)

\* Request r2 is served: the event loop gets to its coroutine, the worker
\* thread of its call runs, and its oracle calls come to an end.  Nothing is
\* assumed of the oracle calls of r1.
SpecPairLive ==
    /\ InitPair
    /\ [][NextPair]_vars
    /\ WF_vars(SwitchTo("r2"))
    /\ WF_vars(WorkerOf("r2"))
    /\ SF_vars(RunOf("r2"))

(***************************************************************************)
(* The classify endpoint (router.py) in front of the service, with the     *)
(* oracle stub of Scenario A.                                              *)
(***************************************************************************)
\* lines 12-20
_status_from_errors(errors) ==
    LET stages == {errors[i].stage : i \in 1..Len(errors)}
    IN  IF "validation" \in stages THEN 422
        ELSE IF "disabled" \in stages THEN 503
        ELSE IF "llm_call" \in stages THEN 502
        ELSE 500

\* the event checks of lines 57-68 left out
RouterRejects_ConceptsOnly(p) ==
    p.scope \in {"concept", "both"} /\ p.concepts = <<>>

\* lines 52-68: the request is answered 422 without calling the service
RouterRejects(p) ==
    \/ p.scope \in {"concept", "both"} /\ p.concepts = <<>>
    \/ /\ p.scope \in {"event", "both"}
       /\ \/ ~Truthy(p.eventId)
          \/ ~(Truthy(p.eventTitle) \/ Truthy(p.eventNormalizedTextEn))

\* lines 52-69: the checks of the endpoint, then the service is awaited
RouterValidate ==
    /\ pc = "RECEIVED"
    /\ IF RouterRejects(payload)
         THEN pc' = "REJECTED" /\ http' = 422
         ELSE pc' = "INIT" /\ http' = http
    /\ UNCHANGED <<enabled, _client, payload, calls, concept_root_map,
                   event_roots, root_warnings, stage2_payload, leaf_reply,
                   response, exit, cur, parked, thread, args, result>>

\* lines 69-71: the result of the service is answered
RouterRespond ==
    /\ pc = "RETURNED"
    /\ pc' = "RESPONDED"
    /\ http' = IF response.errors # <<>> THEN _status_from_errors(response.errors)
               ELSE 200
    /\ UNCHANGED <<enabled, _client, payload, calls, concept_root_map,
                   event_roots, root_warnings, stage2_payload, leaf_reply,
                   response, exit, cur, parked, thread, args, result>>

RouterRequests ==
    [concepts : {<<>>, <<ConceptA>>},
     snapshot : {SnapshotA, SnapshotCycle},
     mode : {"existing_only"},
     scope : {"concept", "event", "both"},
     eventId : {None, "", "evt-1"},
     eventTitle : {None, "Climbing with Alice"},
     eventNormalizedTextEn : {None, "climbing with alice"}]

InitRouter ==
    /\ RequestInit(RouterRequests, "RECEIVED")
    /\ args = NoArgs
    /\ result = NoResult

NextRouter ==
    \/ RouterValidate
    \/ Start
    \/ _call_openai_sync
    \/ RootCallFails
    \/ RootCallReturns(RootRepliesA(payload))
    \/ BuildStage2
    \/ LeafCallFails
    \/ LeafCallReturns(LeafRepliesA(payload))
    \/ RouterRespond

SpecRouter == InitRouter /\ [][NextRouter]_vars

(***************************************************************************)
(* _select_roots applied on its own to lists longer than the cut.          *)
(***************************************************************************)
MaxSelLen == 6

CandPool ==
    <<[oClassId |-> "E_Place", confidence |-> 30],
      [oClassId |-> "E_Place", confidence |-> 40],
      [oClassId |-> "E_Food", confidence |-> 40],
      [oClassId |-> "E_Food", confidence |-> 90],
      [oClassId |-> NewId, confidence |-> 90]>>

SelectArgs(n_max) ==
    {[fn |-> "_select_roots", candidates |-> c, allowed_ids |-> a] :
        c \in UNION {[1..n -> Range(CandPool)] : n \in 0..n_max},
        a \in {{}, {"E_Place"}, {"E_Place", "E_Food"}}}

ApplySelectRoots ==
    /\ args.fn = "_select_roots"
    /\ result = NoResult
    /\ result' = [fn |-> "_select_roots",
                  value |-> _select_roots(args.candidates, args.allowed_ids)]
    /\ UNCHANGED <<enabled, _client, payload, pc, calls, concept_root_map,
                   event_roots, root_warnings, stage2_payload, leaf_reply,
                   response, exit, cur, parked, thread, http, args>>

InitSelect == InitApply(SelectArgs(MaxSelLen))

NextSelect == ApplySelectRoots

SpecSelect == InitSelect /\ [][NextSelect]_vars

(***************************************************************************)
(* _get_root_classes and collect_leaves applied on their own to every      *)
(* snapshot of three classes: any flags, any edges among the classes       *)
(* (self-loops and cycles included); collect_leaves is applied to the      *)
(* roots of the snapshot, the only ids classify expands.                   *)
(***************************************************************************)
TaxonomyIds == <<"E_Place", "E_Restaurant", "E_Cafe">>
TaxonomyEdges ==
    Enum({Edge(parent, child) : parent \in Range(TaxonomyIds),
                                child \in Range(TaxonomyIds)})

TaxonomySnapshots ==
    {[oClasses |-> [i \in 1..Len(TaxonomyIds) |->
                       OClass(TaxonomyIds[i], "Entity", flags[i])],
      subclassEdges |-> edges] :
        flags \in [1..Len(TaxonomyIds) -> BOOLEAN],
        edges \in SubLists(TaxonomyEdges, Len(TaxonomyEdges))}

TaxonomyArgs ==
    {[fn |-> "_get_root_classes", payload |-> [RequestA EXCEPT !.snapshot = sn]] :
        sn \in TaxonomySnapshots}
    \cup
    {a \in [fn : {"collect_leaves"},
            payload : {[RequestA EXCEPT !.snapshot = sn] : sn \in TaxonomySnapshots},
            root_id : Range(TaxonomyIds)] :
        a.root_id \in IdsOf(_get_root_classes(a.payload))}

ApplyGetRootClasses ==
    /\ args.fn = "_get_root_classes"
    /\ result = NoResult
    /\ result' = [fn |-> "_get_root_classes",
                  value |-> _get_root_classes(args.payload)]
    /\ UNCHANGED <<enabled, _client, payload, pc, calls, concept_root_map,
                   event_roots, root_warnings, stage2_payload, leaf_reply,
                   response, exit, cur, parked, thread, http, args>>

ApplyCollectLeaves ==
    /\ args.fn = "collect_leaves"
    /\ result = NoResult
    /\ result' = [fn |-> "collect_leaves",
                  value |-> collect_leaves(args.payload, args.root_id)]
    /\ UNCHANGED <<enabled, _client, payload, pc, calls, concept_root_map,
                   event_roots, root_warnings, stage2_payload, leaf_reply,
                   response, exit, cur, parked, thread, http, args>>

InitTaxonomy == InitApply(TaxonomyArgs)

NextTaxonomy == ApplyGetRootClasses \/ ApplyCollectLeaves

SpecTaxonomy == InitTaxonomy /\ [][NextTaxonomy]_vars

(***************************************************************************)
(* collect_leaves applied twice to a snapshot and once to the same         *)
(* snapshot with its edge list rearranged: permuted, edges repeated.       *)
(***************************************************************************)
MaxEdgeLen == 3

\* the maps of 1..m onto 1..n
Onto(m, n) == {f \in [1..m -> 1..n] : \A j \in 1..n : \E i \in 1..m : f[i] = j}

\* the lists of at most n elements that hold exactly the elements of e
Rearranged(e, n) ==
    UNION {{[i \in 1..m |-> e[f[i]]] : f \in Onto(m, Len(e))} : m \in Len(e)..n}

EdgeListSnapshot(edges) ==
    [oClasses |-> [i \in 1..Len(TaxonomyIds) |->
                      OClass(TaxonomyIds[i], "Entity", FALSE)],
     subclassEdges |-> edges]

\* the edge lists of at most n edges among the classes
EdgeLists(n) == UNION {[1..k -> Range(TaxonomyEdges)] : k \in 0..n}

EdgeListRequest(edges) == [RequestA EXCEPT !.snapshot = EdgeListSnapshot(edges)]

ApplyCollectLeavesTwice ==
    /\ args.fn = "collect_leaves"
    /\ result = NoResult
    /\ result' = [fn |-> "collect_leaves",
                  value |-> collect_leaves(EdgeListRequest(args.edges), args.root_id),
                  again |-> collect_leaves(EdgeListRequest(args.edges), args.root_id),
                  reordered |-> collect_leaves(EdgeListRequest(args.reordered),
                                               args.root_id)]
    /\ UNCHANGED <<enabled, _client, payload, pc, calls, concept_root_map,
                   event_roots, root_warnings, stage2_payload, leaf_reply,
                   response, exit, cur, parked, thread, http, args>>

InitEdgeOrder ==
    /\ RequestInit({RequestA}, "INIT")
    /\ enabled
    /\ result = NoResult
    /\ \E e \in EdgeLists(MaxEdgeLen) :
          \E e2 \in Rearranged(e, MaxEdgeLen) :
             args = [fn |-> "collect_leaves", edges |-> e, reordered |-> e2,
                     root_id |-> TaxonomyIds[1]]

NextEdgeOrder == ApplyCollectLeavesTwice

SpecEdgeOrder == InitEdgeOrder /\ [][NextEdgeOrder]_vars

(***************************************************************************)
(* The while loop of collect_leaves, one iteration per step.  result holds *)
(* the locals of the call: stack and visited, and two records of what the  *)
(* loop did: how often each node had its children pushed, and the nodes a   *)
(* `continue` skipped.                                                      *)
(***************************************************************************)
\* the stack holds at most the root and one entry per edge
MaxStack == 10

\* the count is kept up to 2: once, or more than once
Bump(count, node) ==
    [count EXCEPT ![node] = IF count[node] < 2 THEN count[node] + 1 ELSE 2]

\* line 473 never taken
Revisit_Never(node, visited) == FALSE

\* line 473
Revisit(node, visited) == node \in visited

\* lines 470-471
LoopEnter ==
    /\ args.fn = "collect_leaves"
    /\ result = NoResult
    /\ result' = [fn |-> "collect_leaves", at |-> "while",
                  stack |-> <<args.root_id>>, visited |-> {},
                  pushed |-> [n \in Range(TaxonomyIds) |-> 0],
                  skipped |-> {}, value |-> {}]
    /\ UNCHANGED <<enabled, _client, payload, pc, calls, concept_root_map,
                   event_roots, root_warnings, stage2_payload, leaf_reply,
                   response, exit, cur, parked, thread, http, args>>

\* lines 472-475: the popped node was visited before
LoopContinue ==
    /\ result.fn = "collect_leaves"
    /\ result.at = "while"
    /\ result.stack # <<>>
    /\ LET node == result.stack[Len(result.stack)]
       IN  /\ Revisit(node, result.visited)
           /\ result' = [result EXCEPT
                           !.stack = SubSeq(result.stack, 1, Len(result.stack) - 1),
                           !.skipped = result.skipped \cup {node}]
    /\ UNCHANGED <<enabled, _client, payload, pc, calls, concept_root_map,
                   event_roots, root_warnings, stage2_payload, leaf_reply,
                   response, exit, cur, parked, thread, http, args>>

\* lines 472-477: the popped node is marked and its children are pushed
LoopExpand ==
    /\ result.fn = "collect_leaves"
    /\ result.at = "while"
    /\ result.stack # <<>>
    /\ LET node == result.stack[Len(result.stack)]
           rest == SubSeq(result.stack, 1, Len(result.stack) - 1)
           children == Get(children_by_parent(EdgeListRequest(args.edges)), node, <<>>)
       IN  /\ ~Revisit(node, result.visited)
           /\ Len(rest) + Len(children) <= MaxStack
           /\ result' = [result EXCEPT
                           !.stack = rest \o children,
                           !.visited = result.visited \cup {node},
                           !.pushed = Bump(result.pushed, node)]
    /\ UNCHANGED <<enabled, _client, payload, pc, calls, concept_root_map,
                   event_roots, root_warnings, stage2_payload, leaf_reply,
                   response, exit, cur, parked, thread, http, args>>

\* lines 472, 479-480: the stack is empty, the leaves are returned
LoopExit ==
    /\ result.fn = "collect_leaves"
    /\ result.at = "while"
    /\ result.stack = <<>>
    /\ LET cbp == children_by_parent(EdgeListRequest(args.edges))
       IN  result' = [result EXCEPT
                       !.at = "returned",
                       !.value = {n \in result.visited : Get(cbp, n, <<>>) = <<>>}]
    /\ UNCHANGED <<enabled, _client, payload, pc, calls, concept_root_map,
                   event_roots, root_warnings, stage2_payload, leaf_reply,
                   response, exit, cur, parked, thread, http, args>>

InitLoop ==
    /\ RequestInit({RequestA}, "INIT")
    /\ enabled
    /\ result = NoResult
    /\ \E e \in SubLists(TaxonomyEdges, Len(TaxonomyEdges)) :
          \E r \in Range(TaxonomyIds) :
             args = [fn |-> "collect_leaves", edges |-> e, root_id |-> r]

NextLoop == LoopEnter \/ LoopContinue \/ LoopExpand \/ LoopExit

\* the call runs on its own thread of control: it takes its next step
SpecLoop == InitLoop /\ [][NextLoop]_vars /\ WF_vars(NextLoop)

(***************************************************************************)
(* The subtree expansion of _build_stage2_payload (lines 526-547) run      *)
(* twice on one snapshot and one set of selected roots, the snapshot with  *)
(* a root of about LeafCap leaves.  The list collect_leaves returns is in  *)
(* the iteration order of a set of str, which follows the hash seed of the *)
(* interpreter: the two runs are runs of two server processes.             *)
(***************************************************************************)
LeafId(i) == "L" \o ToString(i)

\* E_Place with n leaves below it, A_Activity with two
WideSnapshot(n) ==
    [oClasses |-> <<OClass("E_Place", "Entity", TRUE),
                    OClass("A_Activity", "Activity", TRUE),
                    OClass("A_Climbing", "Activity", FALSE),
                    OClass("A_Dining", "Activity", FALSE)>>
                  \o [i \in 1..n |-> OClass(LeafId(i), "Entity", FALSE)],
     subclassEdges |-> <<Edge("A_Activity", "A_Climbing"),
                         Edge("A_Activity", "A_Dining")>>
                       \o [i \in 1..n |-> Edge("E_Place", LeafId(i))]]

WideArgs ==
    [fn : {"subtree_candidates"},
     leaves : {LeafCap - 1, LeafCap, LeafCap + 1},
     roots : {{"E_Place"}, {"E_Place", "A_Activity"}}]

ApplySubtreesTwice ==
    /\ args.fn = "subtree_candidates"
    /\ result = NoResult
    /\ LET p == [RequestA EXCEPT !.snapshot = WideSnapshot(args.leaves)]
           choices == SubtreeChoices(p, args.roots)
       IN  \E first \in choices : \E second \in choices :
              result' = [fn |-> "subtree_candidates",
                         first |-> first, second |-> second]
    /\ UNCHANGED <<enabled, _client, payload, pc, calls, concept_root_map,
                   event_roots, root_warnings, stage2_payload, leaf_reply,
                   response, exit, cur, parked, thread, http, args>>

InitWide ==
    /\ RequestInit({RequestA}, "INIT")
    /\ enabled
    /\ args \in WideArgs
    /\ result = NoResult

NextWide == ApplySubtreesTwice

SpecWide == InitWide /\ [][NextWide]_vars

(***************************************************************************)
(* classify on a snapshot one of whose leaf classes has the empty string   *)
(* as its id (SnapshotOClass.id is any str).                               *)
(***************************************************************************)
SnapshotBlankId ==
    [oClasses |-> <<OClass("E_Place", "Entity", TRUE),
                    OClass("", "Entity", FALSE),
                    OClass("A_Activity", "Activity", TRUE),
                    OClass("A_Climbing", "Activity", FALSE)>>,
     subclassEdges |-> <<Edge("E_Place", ""),
                         Edge("A_Activity", "A_Climbing")>>]

BlankIdRequests ==
    [concepts : {<<ConceptA>>}, snapshot : {SnapshotBlankId},
     mode : {"existing_only", "allow_new_leaf"},
     scope : {"concept", "event", "both"},
     eventId : {"evt-1"}, eventTitle : {"Climbing with Alice"},
     eventNormalizedTextEn : {None}]

InitBlankId == InitWith(BlankIdRequests)

SpecBlankId == InitBlankId /\ [][Next]_vars

(***************************************************************************)
(* Properties.                                                             *)
(***************************************************************************)
Returned == pc = "RETURNED"

\* the leaves of the taxonomy graph under the roots of rootCandidates
ExpandedLeaves(rootCandidates) ==
    UNION {collect_leaves(payload, rootCandidates[i]) :
              i \in 1..Len(rootCandidates)}

HasWarning(message) ==
    \E i \in 1..Len(response.warnings) : response.warnings[i].message = message

\* C1: in every response, each surviving classification names a leaf reached
\* from the roots selected for its own conceptKey, and each surviving event
\* activity a leaf reached from the roots selected for the event; a record
\* whose concept was not sent to the leaf stage, or an activity without an
\* event payload, does not survive.
C1_LeafMembership ==
    Returned =>
      /\ \A i \in 1..Len(response.classifications) :
           \E j \in 1..Len(stage2_payload.concepts) :
              /\ stage2_payload.concepts[j].conceptKey =
                    response.classifications[i].conceptKey
              /\ response.classifications[i].oClassId \in
                    ExpandedLeaves(stage2_payload.concepts[j].rootCandidates)
      /\ \A i \in 1..Len(response.eventActivities) :
           /\ stage2_payload.event # <<>>
           /\ response.eventActivities[i].oClassId \in
                 ExpandedLeaves(stage2_payload.event[1].rootCandidates)

\* a classification and an event activity survive where mode does not filter,
\* next to a dropped record
C1_Witness ==
    /\ Returned
    /\ payload.mode = "allow_new_leaf"
    /\ response.classifications # <<>>
    /\ response.eventActivities # <<>>

\* C2: under existing_only, every response has empty oClassesToAdd and
\* subclassEdgesToAdd.
C2_ModeInvariant ==
    (Returned /\ payload.mode = "existing_only") =>
      /\ response.oClassesToAdd = <<>>
      /\ response.subclassEdgesToAdd = <<>>

\* the oracle proposed an edge and no class under existing_only
C2_Witness ==
    /\ Returned
    /\ payload.mode = "existing_only"
    /\ exit = "validated"
    /\ leaf_reply.oClassesToAdd = <<>>
    /\ leaf_reply.subclassEdgesToAdd # <<>>

\* C3: in every response, scope concept leaves no event activity and scope
\* event leaves no classification.
C3_ScopeInvariant ==
    Returned =>
      /\ payload.scope = "concept" => response.eventActivities = <<>>
      /\ payload.scope = "event" => response.classifications = <<>>

\* under scope concept the oracle returned an activity of a snapshot class
C3_Witness ==
    /\ Returned
    /\ exit = "validated"
    /\ payload.scope = "concept"
    /\ \E i \in 1..Len(leaf_reply.eventActivities) :
          leaf_reply.eventActivities[i].oClassId \in IdsOf(payload.snapshot.oClasses)

OneError(stage) ==
    /\ Len(response.errors) = 1
    /\ response.errors[1].stage = stage

NoOutput ==
    /\ response.classifications = <<>>
    /\ response.eventActivities = <<>>
    /\ response.oClassesToAdd = <<>>
    /\ response.subclassEdgesToAdd = <<>>

\* C4: in every response, ok is false only if errors is non-empty, whatever
\* ok the leaf oracle replied.
C4_OkOnlyFalseWithErrors ==
    (Returned /\ response.errors = <<>>) => response.ok = TRUE

\* C5: when an oracle call raises, the response is ok = false with the single
\* error llm_call and no output, and after a failed root-selection call no
\* leaf call was made.
C5_OracleFailure ==
    (Returned /\ exit \in {"root_call_failed", "leaf_call_failed"}) =>
      /\ response.ok = FALSE
      /\ OneError("llm_call")
      /\ NoOutput
      /\ exit = "root_call_failed" => calls = <<"root">>

\* the leaf call was made and raised
C5_Witness ==
    /\ Returned
    /\ exit = "leaf_call_failed"
    /\ calls = <<"root", "leaf">>

\* C6: without credentials the response is ok = false with the single error
\* disabled, whatever the snapshot, and no oracle call is made.
C6_Disabled ==
    (Returned /\ ~enabled) =>
      /\ response.ok = FALSE
      /\ OneError("disabled")
      /\ NoOutput
      /\ calls = <<>>

\* no credentials and a snapshot without roots
C6_Witness ==
    /\ Returned
    /\ ~enabled
    /\ payload.snapshot = SnapshotCycle

\* no class is flagged isRoot and every class is the child of some edge
NoRootInSnapshot ==
    \A i \in 1..Len(payload.snapshot.oClasses) :
       /\ payload.snapshot.oClasses[i].isRoot # TRUE
       /\ \E j \in 1..Len(payload.snapshot.subclassEdges) :
             payload.snapshot.subclassEdges[j].childId =
                payload.snapshot.oClasses[i].id

Stage2Built == stage2_payload.mode # None

\* C8: a leaf query without concepts and without an event payload is never
\* sent: classify returns ok = true with no errors, no classifications, no
\* event activities and the warnings accumulated until then.
C8_ShortCircuit ==
    (/\ Stage2Built
     /\ stage2_payload.concepts = <<>>
     /\ stage2_payload.event = <<>>) =>
      /\ Returned
      /\ calls = <<"root">>
      /\ response.ok = TRUE
      /\ response.errors = <<>>
      /\ NoOutput
      /\ response.warnings = root_warnings
      /\ HasWarning("no candidates for stage2 classification")

\* the short circuit with a warning of the root oracle and a root expanded
\* for a conceptKey the request does not have
C8_Witness ==
    /\ Returned
    /\ exit = "short_circuit"
    /\ DOMAIN stage2_payload.rootSubtrees # {}
    /\ \E i \in 1..Len(response.warnings) : response.warnings[i] = OracleError

\* the event id as the claim describes it: the request's eventId, else its
\* eventTitle, else the sourceText of the first concept
ClaimedEventId ==
    IF Truthy(payload.eventId) THEN payload.eventId
    ELSE IF Truthy(payload.eventTitle) THEN payload.eventTitle
    ELSE IF payload.concepts # <<>> /\ Truthy(payload.concepts[1].sourceText)
           THEN payload.concepts[1].sourceText
    ELSE None

\* the event id with the third choice read as the first sourceText that any
\* concept of the request has
FirstTextEventId ==
    IF Truthy(payload.eventId) THEN payload.eventId
    ELSE IF Truthy(payload.eventTitle) THEN payload.eventTitle
    ELSE IF \E i \in 1..Len(payload.concepts) : Truthy(payload.concepts[i].sourceText)
           THEN LET i == CHOOSE k \in 1..Len(payload.concepts) :
                           /\ Truthy(payload.concepts[k].sourceText)
                           /\ \A m \in 1..(k - 1) :
                                 ~Truthy(payload.concepts[m].sourceText)
                IN  payload.concepts[i].sourceText
    ELSE None

\* every surviving activity carries an id; one whose class the oracle
\* returned without an id carries `id`; without `id` nothing survives and
\* the response carries a warning
EventIdBackfill(id) ==
    (Returned /\ exit = "validated" /\ payload.scope \in {"event", "both"}) =>
      /\ \A i \in 1..Len(response.eventActivities) :
            /\ Truthy(response.eventActivities[i].eventId)
            /\ (\A j \in 1..Len(leaf_reply.eventActivities) :
                   leaf_reply.eventActivities[j].oClassId =
                      response.eventActivities[i].oClassId
                   => leaf_reply.eventActivities[j].eventId = None)
               => response.eventActivities[i].eventId = id
      /\ ~Truthy(id) =>
            /\ response.eventActivities = <<>>
            /\ response.warnings # <<>>

\* C9 as stated: the third choice is the first concept's sourceText.
C9_FirstConceptText == EventIdBackfill(ClaimedEventId)

\* C9 amended: the third choice is the sourceText of the first concept that
\* has one; when there is none, the activities the oracle returned are
\* dropped with the warning "event context missing".
C9_FirstTextOfAnyConcept ==
    /\ EventIdBackfill(FirstTextEventId)
    /\ (/\ Returned /\ exit = "validated"
        /\ payload.scope \in {"event", "both"}
        /\ ~Truthy(FirstTextEventId)
        /\ leaf_reply.eventActivities # <<>>)
       => HasWarning("event context missing; ignoring eventActivities")

\* no eventId, no eventTitle, a first concept without sourceText: an activity
\* survives with the second concept's sourceText
C9_Witness ==
    /\ Returned
    /\ payload.eventId = None
    /\ payload.eventTitle = None
    /\ Len(payload.concepts) = 2
    /\ payload.concepts[1].sourceText = None
    /\ response.eventActivities # <<>>
    /\ response.eventActivities[1].eventId = payload.concepts[2].sourceText

\* Scenario A has run: the roots of the stub were selected and the leaf reply
\* assigned the concept to E_Place, the event to A_Activity and to a class
\* outside the candidates, with a foreign eventId
ScenarioA ==
    /\ Returned
    /\ exit = "validated"
    /\ payload = RequestA
    /\ Len(stage2_payload.concepts) = 1
    /\ stage2_payload.concepts[1].rootCandidates = <<"E_Place">>
    /\ stage2_payload.event # <<>>
    /\ stage2_payload.event[1].rootCandidates = <<"A_Activity">>
    /\ leaf_reply.classifications =
          <<[conceptKey |-> "Place::X", oClassId |-> "E_Place"]>>
    /\ Len(leaf_reply.eventActivities) = 2
    /\ \A i \in 1..2 : /\ leaf_reply.eventActivities[i].eventId = "wrong-id"
                       /\ leaf_reply.eventActivities[i].oClassId \in {"A_Activity", NewId}
    /\ \E i \in 1..2 : leaf_reply.eventActivities[i].oClassId = "A_Activity"
    /\ \E i \in 1..2 : leaf_reply.eventActivities[i].oClassId = NewId

DropCount(message, n) ==
    \E i \in 1..Len(response.warnings) :
       /\ response.warnings[i].message = message
       /\ response.warnings[i].droppedCount = n

\* C10 as stated: in Scenario A the classification to E_Place and the activity
\* for A_Activity are kept, the survivors carry the request's eventId and the
\* record outside the candidates is dropped with a counted warning.
C10_RootRecordsKept ==
    ScenarioA =>
      /\ \E i \in 1..Len(response.classifications) :
            response.classifications[i].oClassId = "E_Place"
      /\ \E i \in 1..Len(response.eventActivities) :
            response.eventActivities[i].oClassId = "A_Activity"
      /\ \A i \in 1..Len(response.eventActivities) :
            response.eventActivities[i].eventId = "evt-1"
      /\ \E i \in 1..Len(response.warnings) :
            /\ response.warnings[i].message =
                  "leaf-only: stripped event activities not in candidate leaves"
            /\ response.warnings[i].droppedCount >= 1

\* C10 amended: in Scenario A the candidate leaves are E_Restaurant and
\* A_Climbing, so the classification to E_Place and the activity for
\* A_Activity are dropped like the record outside the snapshot, each list
\* with a warning counting its drops; in every response to the scenario's
\* request the survivors carry the request's eventId.
C10_RootRecordsDropped ==
    /\ ScenarioA =>
         /\ response.classifications = <<>>
         /\ response.eventActivities = <<>>
         /\ DropCount("leaf-only: stripped classifications not in candidate leaves", 1)
         /\ DropCount("leaf-only: stripped event activities not in candidate leaves", 2)
         /\ response.ok = TRUE
         /\ response.errors = <<>>
    /\ (Returned /\ payload = RequestA) =>
         /\ \A i \in 1..Len(response.eventActivities) :
               /\ response.eventActivities[i].eventId = "evt-1"
               /\ response.eventActivities[i].oClassId = "A_Climbing"
         /\ \A i \in 1..Len(response.classifications) :
               response.classifications[i].oClassId = "E_Restaurant"

C10_Witness == ScenarioA

\* the root ids of the leaf query are roots the snapshot allows for the item
QueryFromFiltered ==
    /\ \A i \in 1..Len(stage2_payload.concepts) :
          LET rc == stage2_payload.concepts[i].rootCandidates
          IN  /\ rc # <<>>
              /\ Len(rc) <= TopK
              /\ Range(rc) \subseteq IdsOf(concept_roots(payload))
    /\ \A i \in 1..Len(stage2_payload.event) :
          LET rc == stage2_payload.event[i].rootCandidates
          IN  /\ rc # <<>>
              /\ Len(rc) <= TopK
              /\ Range(rc) \subseteq IdsOf(activity_roots(payload))

\* C11: a request makes at most one root-selection call and then at most one
\* leaf-classification call; the leaf call is made only after the root call
\* returned without raising and the leaf query was built, and the query's
\* root ids come from the filtered selection.
C11_CallOrder ==
    /\ calls \in {<<>>, <<"root">>, <<"root", "leaf">>}
    /\ pc = "INIT" => calls = <<>>
    /\ pc \in {"ROOTS_REQUESTED", "ROOTS_VALIDATED"} => calls = <<"root">>
    /\ pc = "LEAVES_REQUESTED" => calls = <<"root", "leaf">>
    /\ exit \in {"disabled", "no_roots"} => calls = <<>>
    /\ exit \in {"root_call_failed", "short_circuit"} => calls = <<"root">>
    /\ calls = <<"root", "leaf">> =>
          /\ Stage2Built
          /\ ~Stage2Empty(stage2_payload)
          /\ QueryFromFiltered

\* the leaf call is in flight with a query for a concept and for the event
C11_Witness ==
    /\ pc = "LEAVES_REQUESTED"
    /\ calls = <<"root", "leaf">>
    /\ stage2_payload.concepts # <<>>
    /\ stage2_payload.event # <<>>

CountedDrop(message, n) ==
    \E i \in 1..Len(response.warnings) :
       LET w == response.warnings[i]
       IN  /\ w.stage = "validation"
           /\ w.message = message
           /\ w.droppedCount = n
           /\ Len(w.dropped) <= 50
           /\ Len(w.dropped) = IF n < 50 THEN n ELSE 50

\* the records the candidate filter removes from the leaf reply
FilteredClassifications ==
    LET cls == ScopeClassifications(payload, leaf_reply.classifications)
        clm == concept_leaf_map(payload, stage2_payload)
    IN  {i \in 1..Len(cls) : ~InCandidateLeaves(clm, cls[i])}

FilteredEventActivities ==
    LET ev == ScopeEventActivities(payload, leaf_reply.eventActivities)
        elids == event_leaf_ids(payload, stage2_payload)
    IN  {i \in 1..Len(ev) : ~InEventLeaves(elids, ev[i])}

\* C16: when the candidate filter removes n >= 1 classifications (event
\* activities), the response carries a validation warning for that record
\* type with droppedCount = n and a sample of at most 50 records, and the
\* errors are those of the leaf reply.
C16_DropsCounted ==
    exit = "validated" =>
       LET n == Cardinality(FilteredClassifications)
           m == Cardinality(FilteredEventActivities)
       IN  /\ n >= 1 =>
                CountedDrop("leaf-only: stripped classifications not in candidate leaves", n)
           /\ m >= 1 =>
                CountedDrop("leaf-only: stripped event activities not in candidate leaves", m)
           /\ response.errors = leaf_reply.errors

\* more records were removed than a warning samples
C16_Witness ==
    /\ exit = "validated"
    /\ Cardinality(FilteredClassifications) > 50
    /\ Cardinality(FilteredEventActivities) > 50
    /\ \E i \in 1..Len(response.warnings) :
          /\ response.warnings[i].message =
                "leaf-only: stripped event activities not in candidate leaves"
          /\ Len(response.warnings[i].dropped) = 50

\* how often record r occurs at the indices I of sequence s
CountAt(s, I, r) == Cardinality({i \in I : s[i] = r})

\* the positions of the candidates root selection has to choose from
SelectBase(candidates, allowed_ids) ==
    LET valid == {i \in 1..Len(candidates) : candidates[i].oClassId \in allowed_ids}
        confident == {i \in valid : candidates[i].confidence >= 40}
    IN  IF confident # {} THEN confident ELSE valid

\* C17: root selection returns the allowed candidates of confidence >= 0.4
\* (0.4 included), or all allowed candidates when none reaches 0.4, in
\* descending order of confidence and cut to the 5 best; it is empty only
\* when no candidate has an allowed id.
C17_SelectRoots ==
    result.fn = "_select_roots" =>
       LET c == args.candidates
           base == SelectBase(c, args.allowed_ids)
           v == result.value
           n == IF Cardinality(base) < 5 THEN Cardinality(base) ELSE 5
       IN  /\ Len(v) = n
           /\ \A k \in 1..(Len(v) - 1) : v[k].confidence >= v[k + 1].confidence
           /\ \A k \in 1..Len(v) :
                 CountAt(v, 1..Len(v), v[k]) <= CountAt(c, base, v[k])
           /\ \A i \in base :
                 (v # <<>> /\ c[i].confidence > v[Len(v)].confidence) =>
                    CountAt(v, 1..Len(v), c[i]) = CountAt(c, base, c[i])
           /\ v = <<>> <=>
                 (\A i \in 1..Len(c) : c[i].oClassId \notin args.allowed_ids)

\* six allowed candidates, all below 0.4: the fallback keeps five of them
C17_Witness ==
    /\ result.fn = "_select_roots"
    /\ Len(args.candidates) = 6
    /\ \A i \in 1..6 : /\ args.candidates[i].oClassId \in args.allowed_ids
                         /\ args.candidates[i].confidence < 40
    /\ Len(result.value) = 5

\* the classes and the edges of the snapshot a function was applied to
ArgClasses == args.payload.snapshot.oClasses
ArgEdges == Range(args.payload.snapshot.subclassEdges)
HasParent(id) == \E e \in ArgEdges : e.childId = id
HasChild(id) == \E e \in ArgEdges : e.parentId = id
SomeFlagged == \E i \in 1..Len(ArgClasses) : ArgClasses[i].isRoot = TRUE

\* C18: the root lookup returns exactly the classes flagged isRoot when at
\* least one is flagged, and otherwise exactly the classes that are not the
\* childId of any subclass edge.
C18_RootLookup ==
    result.fn = "_get_root_classes" =>
       LET I == IF SomeFlagged
                  THEN {i \in 1..Len(ArgClasses) : ArgClasses[i].isRoot = TRUE}
                  ELSE {i \in 1..Len(ArgClasses) : ~HasParent(ArgClasses[i].id)}
       IN  /\ Range(result.value) = {ArgClasses[i] : i \in I}
           /\ Len(result.value) = Cardinality(I)

\* no class is flagged, one class has a parent and another is returned
C18_Witness ==
    /\ result.fn = "_get_root_classes"
    /\ ~SomeFlagged
    /\ \E i \in 1..Len(ArgClasses) : HasParent(ArgClasses[i].id)
    /\ result.value # <<>>

\* C19 as stated: every class without an incoming edge and every flagged
\* class is a root, also when other classes are flagged.
C19_ParentlessIsRoot ==
    result.fn = "_get_root_classes" =>
       \A i \in 1..Len(ArgClasses) :
          (ArgClasses[i].isRoot = TRUE \/ ~HasParent(ArgClasses[i].id)) =>
             ArgClasses[i] \in Range(result.value)

\* C19 amended: a class is a root exactly when it is flagged isRoot, or when
\* no class of the snapshot is flagged and it has no incoming edge; a class
\* without a parent is left out as soon as another class is flagged.
C19_FlaggedFirst ==
    result.fn = "_get_root_classes" =>
       \A i \in 1..Len(ArgClasses) :
          ArgClasses[i] \in Range(result.value) <=>
             \/ ArgClasses[i].isRoot = TRUE
             \/ ~SomeFlagged /\ ~HasParent(ArgClasses[i].id)

\* a class is flagged and an unflagged class without a parent is no root
C19_Witness ==
    /\ result.fn = "_get_root_classes"
    /\ SomeFlagged
    /\ \E i \in 1..Len(ArgClasses) :
          /\ ArgClasses[i].isRoot = FALSE
          /\ ~HasParent(ArgClasses[i].id)
          /\ ArgClasses[i] \notin Range(result.value)

\* the nodes reachable from the nodes of S along parent -> child edges
RECURSIVE Reachable(_)
Reachable(S) ==
    LET next == S \cup {e.childId : e \in {f \in ArgEdges : f.parentId \in S}}
    IN  IF next = S THEN S ELSE Reachable(next)

ReachableLeaves == {n \in Reachable({args.root_id}) : ~HasChild(n)}

\* C20 as stated: the expansion is the set of reachable nodes without a
\* child, and the root alone when there is none, so it is never empty.
C20_NeverEmpty ==
    result.fn = "collect_leaves" =>
       /\ result.value = IF ReachableLeaves = {} THEN {args.root_id}
                         ELSE ReachableLeaves
       /\ result.value # {}

\* C20 amended: the expansion is exactly the set of nodes reachable from the
\* root (the root included) that have no child; a root without children
\* expands to itself; when every reachable node has a child (the root lies
\* on a cycle) the expansion is empty and the root is not put in its place.
C20_ReachableLeaves ==
    result.fn = "collect_leaves" =>
       /\ result.value = ReachableLeaves
       /\ ~HasChild(args.root_id) => result.value = {args.root_id}
       /\ result.value = {} <=> (\A n \in Reachable({args.root_id}) : HasChild(n))

\* the root lies on a cycle through another class and expands to nothing
C20_Witness ==
    /\ result.fn = "collect_leaves"
    /\ result.value = {}
    /\ Cardinality(Reachable({args.root_id})) > 1

\* a request the endpoint has to refuse
InvalidInput ==
    \/ payload.scope \in {"concept", "both"} /\ Len(payload.concepts) = 0
    \/ /\ payload.scope \in {"event", "both"}
       /\ \/ payload.eventId \in {None, ""}
          \/ /\ payload.eventTitle \in {None, ""}
             /\ payload.eventNormalizedTextEn \in {None, ""}

\* C13: a request with scope concept or both and no concepts, or with scope
\* event or both and no eventId or neither eventTitle nor
\* eventNormalizedTextEn, is answered 422 by the endpoint: classify of the
\* service is never entered and no oracle call is made.
C13_RejectedAtEndpoint ==
    InvalidInput =>
       /\ pc \in {"RECEIVED", "REJECTED"}
       /\ pc = "REJECTED" => http = 422
       /\ calls = <<>>
       /\ response = NoResponse
       /\ \A i \in DOMAIN thread : thread[i] = Idle

\* Scenario B: scope event without eventTitle and eventNormalizedTextEn
C13_Witness ==
    /\ pc = "REJECTED"
    /\ payload.scope = "event"
    /\ payload.eventId = "evt-1"
    /\ payload.eventTitle = None
    /\ payload.eventNormalizedTextEn = None

\* the locals of request i, running or suspended
LocalsOf(i) == IF i = cur THEN Locals ELSE parked[i]

InFlight(i) == LocalsOf(i).pc \in {"ROOTS_REQUESTED", "LEAVES_REQUESTED"}

ReturnedReq(i) == LocalsOf(i).pc = "RETURNED"

\* C14 as stated: no request reads state another request wrote; here, the
\* oracle call of a request never takes a client another request created.
C14_NoSharedState ==
    \A i \in DOMAIN thread : thread[i].client \in {None, i}

\* the response of a request that went through validation is the one its
\* own payload, leaf query, warnings and leaf reply give
OwnResponse(i) ==
    LET l == LocalsOf(i)
    IN  l.exit = "validated" =>
           l.response = Validate(l.payload, l.stage2_payload, l.root_warnings,
                                 l.leaf_reply)

\* C14 amended: the locals of classify are request-scoped: a step of one
\* request leaves the locals of the other untouched, handing over the event
\* loop changes no locals, and every response is determined by the
\* request's own locals.  The one state requests share is the lazily
\* created module-level oracle client, which the first call to need it
\* writes and the later calls of every request read.
C14_RequestScoped ==
    [][/\ \A i \in DOMAIN thread :
            (i # cur \/ cur' # cur) => LocalsOf(i)' = LocalsOf(i)
       /\ \A i \in DOMAIN thread : OwnResponse(i)'
       /\ \A i \in DOMAIN thread :
            thread'[i].at = "ready" => thread'[i].client \in DOMAIN thread
       /\ _client # None => _client' # None]_vars

\* both requests went through validation, r2 with the client r1 created
C14_Witness ==
    /\ \A i \in {"r1", "r2"} : LocalsOf(i).exit = "validated"
    /\ LocalsOf("r1").payload # LocalsOf("r2").payload
    /\ _client = "r1"

\* C15: while the oracle call of request r1 stays in flight for ever,
\* request r2 goes through its own oracle calls and returns its response.
C15_OtherRequestReturns ==
    <>[]InFlight("r1") => <>ReturnedReq("r2")

\* r2 returned a validated response while the first call of r1 is in flight
C15_Witness ==
    /\ LocalsOf("r1").pc = "ROOTS_REQUESTED"
    /\ LocalsOf("r2").exit = "validated"
    /\ LocalsOf("r2").calls = <<"root", "leaf">>

\* C21: leaf expansion of a root called twice on the same snapshot returns
\* the same set of leaf ids, and the same set for every permutation of the
\* snapshot's edge list, with edges repeated or not.
C21_OrderIndependent ==
    result.fn = "collect_leaves" =>
      /\ result.again = result.value
      /\ result.reordered = result.value

\* two leaves were found under a root whose edges were given in another
\* order and with one of them repeated
C21_Witness ==
    /\ result.fn = "collect_leaves"
    /\ Cardinality(result.value) = 2
    /\ Len(args.edges) = 2
    /\ Len(args.reordered) = 3
    /\ args.reordered[1] # args.edges[1]

LoopReturned == result.fn = "collect_leaves" /\ result.at = "returned"

ExpandedAtMostOnce ==
    result.fn = "collect_leaves" =>
       \A n \in DOMAIN result.pushed : result.pushed[n] <= 1

\* C22: leaf expansion terminates on every finite snapshot, cycles and
\* self-loops included: the loop returns, and no node has its children pushed
\* more than once; the only effect of a revisit is that the node is skipped.
C22_Terminates == []ExpandedAtMostOnce /\ <>LoopReturned

\* the loop returned on a snapshot with a self-loop and a two-class cycle
\* after skipping revisits, with the leaves of the expansion
C22_Witness ==
    /\ LoopReturned
    /\ Edge("E_Place", "E_Place") \in Range(args.edges)
    /\ Edge("E_Place", "E_Restaurant") \in Range(args.edges)
    /\ Edge("E_Restaurant", "E_Place") \in Range(args.edges)
    /\ args.root_id = "E_Place"
    /\ "E_Place" \in result.skipped
    /\ result.value = collect_leaves(EdgeListRequest(args.edges), args.root_id)
    /\ result.value = {"E_Cafe"}

\* C23: each root's leaf view list has at most 200 entries, and two runs on
\* the same snapshot and the same selected roots produce the same leaf view
\* list for every root, also when a root has more leaves than the cap.
C23_CappedAndDeterministic ==
    result.fn = "subtree_candidates" =>
      /\ \A r \in DOMAIN result.first : Cardinality(result.first[r]) <= 200
      /\ \A r \in DOMAIN result.second : Cardinality(result.second[r]) <= 200
      /\ result.first = result.second

\* the leaf entries the query offers for an item with these root candidates
CandidateEntries(rootCandidates) ==
    LeavesOfRoots(stage2_payload.rootSubtrees, rootCandidates)

\* C24: an item (concept or event) with selected roots whose expansion yields
\* no leaf entry is excluded from the leaf query: no item is sent to the leaf
\* oracle with an empty candidate leaf set.
C24_EmptyItemExcluded ==
    pc = "LEAVES_REQUESTED" =>
      /\ \A i \in 1..Len(stage2_payload.concepts) :
            CandidateEntries(stage2_payload.concepts[i].rootCandidates) # {}
      /\ stage2_payload.event # <<>> =>
            CandidateEntries(stage2_payload.event[1].rootCandidates) # {}

\* the ids of a list of selected root candidates, in their order
RootIds(roots) == [i \in 1..Len(roots) |-> roots[i].oClassId]

\* the step that builds the leaf query and issues the leaf call
QueryBuilt == pc = "ROOTS_VALIDATED" /\ pc' = "LEAVES_REQUESTED"

QueryKnown == stage2_payload # NoPayload

\* the concept of this key is an item of the leaf query, with roots
InQuery(conceptKey) ==
    \E i \in 1..Len(stage2_payload.concepts) :
       /\ stage2_payload.concepts[i].conceptKey = conceptKey
       /\ stage2_payload.concepts[i].rootCandidates # <<>>

\* the concept of this key is no item of the leaf query
OutOfQuery(conceptKey) ==
    \A i \in 1..Len(stage2_payload.concepts) :
       stage2_payload.concepts[i].conceptKey # conceptKey

NoRootsWarned(conceptKey) ==
    \E i \in 1..Len(root_warnings) :
       root_warnings[i] = [stage |-> "validation",
                           message |-> "no roots selected for concept",
                           conceptKey |-> conceptKey]

\* the warnings about an event left out of the leaf query
EventSkipWarnings ==
    {i \in 1..Len(root_warnings) :
        root_warnings[i] \in
           {Warn("event context missing; event classification skipped"),
            Warn("no Activity roots in snapshot; event classification skipped"),
            Warn("event root selection empty; event classification skipped")}}

\* C26: once the leaf query is built, under a scope with concepts every
\* concept of the request is either an item of the query with a non-empty
\* root list, or no item of it and named by a warning "no roots selected for
\* concept", never both; under a scope with the event, the event payload is
\* there with a non-empty root list and no warning, or it is absent and
\* exactly one warning about the skipped event is recorded.
C26_ItemOrWarning ==
    QueryKnown =>
      /\ include_concept(payload) =>
            \A i \in 1..Len(payload.concepts) :
               LET k == payload.concepts[i].conceptKey
               IN  \/ InQuery(k) /\ ~NoRootsWarned(k)
                   \/ OutOfQuery(k) /\ NoRootsWarned(k)
      /\ include_event(payload) =>
            \/ /\ stage2_payload.event # <<>>
               /\ stage2_payload.event[1].rootCandidates # <<>>
               /\ EventSkipWarnings = {}
            \/ /\ stage2_payload.event = <<>>
               /\ Cardinality(EventSkipWarnings) = 1

\* under scope both the leaf call was issued for the event alone: the concept
\* got no root and is named by the warning
C26_Witness ==
    /\ pc = "LEAVES_REQUESTED"
    /\ payload.scope = "both"
    /\ payload.concepts = <<ConceptA>>
    /\ stage2_payload.concepts = <<>>
    /\ NoRootsWarned("Place::X")
    /\ stage2_payload.event # <<>>
    /\ EventSkipWarnings = {}

\* the ids of the roots of the request snapshot with this facet
RootIdsOfFacet(facet) ==
    {c.id : c \in {r \in Range(_get_root_classes(payload)) : r.facet = facet}}

\* C27: whatever root ids the oracle returns, every root selected for a
\* concept is a root of the snapshot with facet Entity and every root selected
\* for the event a root of the snapshot with facet Activity, in the selection
\* and in the leaf query built from it.
C27_SelectedRootsAllowed ==
    /\ \A k \in DOMAIN concept_root_map :
          \A i \in 1..Len(concept_root_map[k]) :
             concept_root_map[k][i].oClassId \in RootIdsOfFacet("Entity")
    /\ \A i \in 1..Len(event_roots) :
          event_roots[i].oClassId \in RootIdsOfFacet("Activity")
    /\ QueryKnown =>
          /\ \A i \in 1..Len(stage2_payload.concepts) :
                Range(stage2_payload.concepts[i].rootCandidates)
                   \subseteq RootIdsOfFacet("Entity")
          /\ stage2_payload.event # <<>> =>
                Range(stage2_payload.event[1].rootCandidates)
                   \subseteq RootIdsOfFacet("Activity")
          /\ DOMAIN stage2_payload.rootSubtrees
                \subseteq RootIdsOfFacet("Entity") \cup RootIdsOfFacet("Activity")

\* the root-selection reply was validated: a root is selected for the
\* concept and one for the event, and an entry of a key the request does not
\* have was stored
C27_Witness ==
    /\ pc = "ROOTS_VALIDATED"
    /\ "Place::X" \in DOMAIN concept_root_map
    /\ OtherKey \in DOMAIN concept_root_map
    /\ Len(concept_root_map["Place::X"]) = 1
    /\ Len(event_roots) = 1

\* C28: in both modes, every surviving classification and every surviving
\* event activity is assigned to a class of the request snapshot; a record
\* assigned to a class the oracle proposed in oClassesToAdd does not survive,
\* also under allow_new_leaf.
C28_SnapshotClassesOnly ==
    Returned =>
      LET ids == IdsOf(payload.snapshot.oClasses) IN
      /\ \A i \in 1..Len(response.classifications) :
            /\ response.classifications[i].oClassId \in ids
            /\ response.classifications[i].oClassId # NewClass.id
      /\ \A i \in 1..Len(response.eventActivities) :
            /\ response.eventActivities[i].oClassId \in ids
            /\ response.eventActivities[i].oClassId # NewClass.id

\* under allow_new_leaf the oracle proposed a class and assigned a concept and
\* the event to it; the proposal is in the response, the two records are not
C28_Witness ==
    /\ Returned
    /\ exit = "validated"
    /\ payload.mode = "allow_new_leaf"
    /\ payload.scope = "both"
    /\ response.oClassesToAdd = <<NewClass>>
    /\ leaf_reply.classifications = <<[conceptKey |-> "Place::X", oClassId |-> NewId]>>
    /\ Len(leaf_reply.eventActivities) = 1
    /\ leaf_reply.eventActivities[1].oClassId = NewId
    /\ stage2_payload.concepts # <<>>
    /\ stage2_payload.event # <<>>
    /\ response.classifications = <<>>
    /\ response.eventActivities = <<>>

\* C29: the validator removes only violating records: under a scope with
\* concepts, a classification of the leaf reply whose conceptKey was sent to
\* the leaf stage and whose oClassId is in that concept's candidate leaves is
\* in the response; under a scope with the event and with an event id to
\* resolve, an event activity of the reply whose oClassId is in the event's
\* candidate leaves is in the response.
C29_CandidatesKept ==
    (Returned /\ exit = "validated") =>
      LET clm == concept_leaf_map(payload, stage2_payload)
          elids == event_leaf_ids(payload, stage2_payload)
      IN  /\ include_concept(payload) =>
                \A i \in 1..Len(leaf_reply.classifications) :
                   LET item == leaf_reply.classifications[i]
                   IN  (/\ item.conceptKey \in DOMAIN clm
                        /\ item.oClassId \in clm[item.conceptKey])
                       => \E j \in 1..Len(response.classifications) :
                             response.classifications[j] = item
          /\ (include_event(payload) /\ Truthy(resolved_event_id(payload))) =>
                \A i \in 1..Len(leaf_reply.eventActivities) :
                   LET item == leaf_reply.eventActivities[i]
                   IN  item.oClassId \in elids
                       => \E j \in 1..Len(response.eventActivities) :
                             response.eventActivities[j].oClassId = item.oClassId

\* the root ids the items of the leaf query name
QueryRootCandidates ==
    UNION {Range(stage2_payload.concepts[i].rootCandidates) :
              i \in 1..Len(stage2_payload.concepts)}
      \cup (IF stage2_payload.event # <<>>
              THEN Range(stage2_payload.event[1].rootCandidates) ELSE {})

\* C30: every root id that is a key of rootSubtrees in the leaf query is a
\* root candidate of a concept item of the query or of its event payload,
\* whatever conceptKeys the root-selection oracle returned; the queries are
\* those sent to the leaf oracle.
C30_SubtreesOfQueryItems ==
    pc = "LEAVES_REQUESTED" =>
       DOMAIN stage2_payload.rootSubtrees \subseteq QueryRootCandidates

====
